---- MODULE Spec2Model ----
(***************************************************************************)
(* A model of the GPS track viewer: the NMEA/JPS, GPX and FlightCell       *)
(* parsers (src/js/jpsParser.js, src/js/gpxParser.js,                      *)
(* src/js/cesiumController.js), the layer handling and the playback of    *)
(* GPSTrackViewer (src/unnamed/part_003) and the statistics and colours    *)
(* of src/js/utils.js.                                                     *)
(*                                                                         *)
(* JavaScript values are encoded as integers.  A number is itself; the     *)
(* values that are not numbers are the negative codes below.  Latitudes    *)
(* and longitudes are held in arc-minutes (decimal degrees * 60), times    *)
(* (Date objects) as their time value in milliseconds, an Invalid Date     *)
(* being NaN.                                                              *)
(***************************************************************************)
EXTENDS Integers, Sequences, FiniteSets, TLC

VARIABLES
    format,       \* which parser the parser specification exercises
    today,        \* the UTC day on which the file is processed (new Date())
    nLines,       \* parseJPS: the number of lines consumed so far by lines.forEach
    line,         \* parseJPS: the line that the last callback of lines.forEach got
    currentKey,   \* parseJPS (history): the key of the accumulator that the most
                  \* recent accepted GGA sentence opened or updated, Null if none
    keys,         \* parseJPS: the keys of dataMap, in insertion order
    accs,         \* parseJPS: dataMap, key -> accumulator object
    gpxDoc,       \* parseGPX: the document read from the file
    fcContent,    \* parseFlightCellGPS: the lines of the file
    outcome,      \* "pending", "resolved" or "rejected"
    points,       \* the points of the returned track
    tracks,       \* the track objects created so far; the index is the identity
    layers,       \* GPSTrackViewer.layers
    currentTrackData,  \* GPSTrackViewer.currentTrackData: a track, or Null
    flightCellData,    \* GPSTrackViewer.flightCellData: gps is a track or Null,
                       \* flight is the attitude samples when hasFlight (else null)
    errors,       \* the number of calls of showError
    calls,        \* the invocations of handleFiles and loadExampleData
    clock,        \* Date.now()
    merges,       \* (history) the arguments of each call of mergeFlightCellData
    playbackIndex,     \* GPSTrackViewer.playbackIndex
    sliderMax,         \* the max attribute of the playbackSlider element
    playbackPanel,     \* whether the playbackPanel element is displayed
    isPlaying,         \* GPSTrackViewer.isPlaying
    playbackInterval,  \* GPSTrackViewer.playbackInterval: a timer id, or Null
    timers,            \* the ids of the interval timers that are registered
    userActive,        \* whether the user still gives input
    args,         \* the function of utils.js / cesiumController.js that is called,
                  \* and its arguments as they are after the call
    returned      \* what the call returned

parseVars == <<format, today, nLines, line, currentKey, keys, accs, gpxDoc, fcContent, outcome, points>>

playVars == <<isPlaying, playbackInterval, timers, userActive>>

viewVars ==
    <<tracks, layers, currentTrackData, flightCellData, errors, calls, clock, merges,
      playbackIndex, sliderMax, playbackPanel, playVars>>

calcVars == <<args, returned>>

vars == <<parseVars, viewVars, calcVars>>

(***************************************************************************)
(* JavaScript values                                                       *)
(***************************************************************************)
Undefined == -901     \* undefined: a field or array element that is not there
Null == -902          \* null
NaN == -903           \* NaN, also the time value of an Invalid Date
Blank == -904         \* an empty text field
Garbage == -905       \* a non-empty text field that holds no number

NotNumbers == {Undefined, Null, NaN, Blank, Garbage}

IsNumber(v) == v \notin NotNumbers

\* !!v for a number, null or undefined
Truthy(v) == v \notin {Undefined, Null, NaN, 0}

\* v || null
OrNull(v) == IF Truthy(v) THEN v ELSE Null

\* parseFloat / parseInt of a text field
parseFloat(s) == IF IsNumber(s) THEN s ELSE NaN

\* isNaN(v) ? null : v
NullIfNaN(v) == IF v = NaN THEN Null ELSE v

MsPerDay == 86400000

\* the result "null" of a sentence parser
NoData == [isNull |-> TRUE]

\* Object.assign(target, source)
ObjectAssign(target, source) ==
    [f \in DOMAIN target |-> IF f \in DOMAIN source THEN source[f] ELSE target[f]]

(***************************************************************************)
(* src/js/jpsParser.js: the sentence parsers                               *)
(***************************************************************************)
\* parseNMEATime(timeStr): Date.UTC(year, month, day of now, hours, minutes,
\* seconds); timeStr is the time of day in whole seconds
parseNMEATime(timeStr, now) ==
    IF timeStr \in {Undefined, Blank} THEN Null
    ELSE IF timeStr = Garbage THEN NaN
    ELSE now * MsPerDay + timeStr * 1000

\* parseNMEACoordinate(coord, direction): DDMM -> arc-minutes, signed
parseNMEACoordinate(coord, direction) ==
    IF coord \in {Undefined, Blank} \/ direction = "" THEN Null
    ELSE LET value == parseFloat(coord) IN
         IF value = NaN THEN NaN
         ELSE LET degrees == value \div 100
                  minutes == value - (degrees * 100)
                  decimal == degrees * 60 + minutes
              IN IF direction \in {"S", "W"} THEN -decimal ELSE decimal

parseGPGGA(parts, now) ==
    LET time == parseNMEATime(parts.time, now)
        lat == parseNMEACoordinate(parts.lat, parts.ns)
        lon == parseNMEACoordinate(parts.lon, parts.ew)
        quality == parseFloat(parts.quality)
        satellites == parseFloat(parts.sats)
        hdop == parseFloat(parts.hdop)
        elevation == parseFloat(parts.alt)
    IN IF time = Null \/ lat = Null \/ lon = Null THEN NoData
       ELSE [time |-> time, lat |-> lat, lon |-> lon,
             elevation |-> NullIfNaN(elevation),
             satellites |-> NullIfNaN(satellites),
             hdop |-> NullIfNaN(hdop),
             quality |-> quality]

\* parseGNVTG: speed in m/s = km/h / 3.6 (the inputs are multiples of 18 km/h)
parseGNVTG(parts) ==
    LET course == parseFloat(parts.course)
        speedKmh == parseFloat(parts.kmh)
        speedMs == IF speedKmh # NaN THEN (speedKmh * 10) \div 36 ELSE Null
    IN [course |-> NullIfNaN(course), speed |-> speedMs]

parseGNGSA(parts) ==
    LET pdop == parseFloat(parts.pdop)
        hdop == parseFloat(parts.hdop)
        vdop == parseFloat(parts.vdop)
    IN [pdop |-> NullIfNaN(pdop), hdop |-> NullIfNaN(hdop), vdop |-> NullIfNaN(vdop)]

\* parseGNZDA: time.substring throws on a sentence without a time field
parseGNZDA(parts) ==
    IF parts.time = Undefined THEN NoData
    ELSE IF ~IsNumber(parts.time) \/ ~IsNumber(parts.day) THEN [date |-> NaN]
    ELSE [date |-> parts.day * MsPerDay + parts.time * 1000]

(***************************************************************************)
(* src/js/jpsParser.js: parseJPS, one line of lines.forEach at a time      *)
(***************************************************************************)
AccFields ==
    {"time", "lat", "lon", "elevation", "satellites", "hdop", "quality",
     "course", "speed", "vdop", "pdop", "fullDate"}

\* dataMap.set(key, {})
EmptyAcc == [f \in AccFields |-> Undefined]

\* line.startsWith('$')
StartsWithDollar(l) == l.type # "noise"

\* Array.from(dataMap.keys()).pop()
lastKey(ks) == IF Len(ks) = 0 THEN Undefined ELSE ks[Len(ks)]

\* data.time.toISOString() throws a RangeError on an Invalid Date
ToISOStringThrows(data) == data.time = NaN

\* the $GPGGA branch: open the accumulator of the key if new, then Object.assign
onGGAKeys(ks, data) ==
    IF \E i \in 1..Len(ks) : ks[i] = data.time THEN ks ELSE Append(ks, data.time)

onGGA(ks, as, data) ==
    LET key == data.time
        old == IF key \in DOMAIN as THEN as[key] ELSE EmptyAcc
    IN [k \in DOMAIN as \cup {key} |->
           IF k = key THEN ObjectAssign(old, data) ELSE as[k]]

\* the $GNVTG branch
onVTG(ks, as, data) ==
    LET key == lastKey(ks) IN
    IF key # Undefined /\ key \in DOMAIN as
    THEN [as EXCEPT ![key] = ObjectAssign(as[key], data)]
    ELSE as

\* if (!existing.f && data.f) existing.f = data.f
fillDOP(existing, new) == IF ~Truthy(existing) /\ Truthy(new) THEN new ELSE existing

\* the $GNGSA branch
onGSA(ks, as, data) ==
    LET key == lastKey(ks) IN
    IF key # Undefined /\ key \in DOMAIN as
    THEN [as EXCEPT ![key] =
             [as[key] EXCEPT !.hdop = fillDOP(as[key].hdop, data.hdop),
                             !.vdop = fillDOP(as[key].vdop, data.vdop),
                             !.pdop = fillDOP(as[key].pdop, data.pdop)]]
    ELSE as

\* the $GNZDA branch
onZDA(ks, as, data) ==
    LET key == lastKey(ks) IN
    IF key # Undefined /\ key \in DOMAIN as
    THEN [as EXCEPT ![key] = ObjectAssign(as[key], [fullDate |-> data.date])]
    ELSE as

\* one TrackPoint of the points array
toPoint(data) ==
    [lat |-> data.lat,
     lon |-> data.lon,
     elevation |-> OrNull(data.elevation),
     time |-> data.time,
     speed |-> OrNull(data.speed),
     course |-> OrNull(data.course),
     hdop |-> OrNull(data.hdop),
     vdop |-> OrNull(data.vdop),
     pdop |-> OrNull(data.pdop),
     satellites |-> OrNull(data.satellites)]

\* if (data.lat && data.lon)
hasLatLon(data) == Truthy(data.lat) /\ Truthy(data.lon)

\* dataMap.forEach(...): the accumulators that become points, in insertion order
RECURSIVE convertMap(_, _)
convertMap(ks, as) ==
    IF Len(ks) = 0 THEN <<>>
    ELSE LET data == as[Head(ks)]
             rest == convertMap(Tail(ks), as)
         IN IF hasLatLon(data) THEN <<toPoint(data)>> \o rest ELSE rest

\* points.sort((a, b) => a.time - b.time): a stable sort, here by insertion
RECURSIVE insertByTime(_, _)
insertByTime(sorted, p) ==
    IF Len(sorted) = 0 THEN <<p>>
    ELSE IF sorted[Len(sorted)].time - p.time > 0
         THEN Append(insertByTime(SubSeq(sorted, 1, Len(sorted) - 1), p),
                     sorted[Len(sorted)])
         ELSE Append(sorted, p)

RECURSIVE sortByTimeFrom(_, _)
sortByTimeFrom(sorted, ps) ==
    IF Len(ps) = 0 THEN sorted
    ELSE sortByTimeFrom(insertByTime(sorted, Head(ps)), Tail(ps))

\* a parser that leaves the points in the order of the map
sortByTimeOmitted(ps) == ps

sortByTime(ps) == sortByTimeFrom(<<>>, ps)

(***************************************************************************)
(* src/js/gpxParser.js: parseGPX                                           *)
(***************************************************************************)
\* new Date(text): the time value, NaN for an Invalid Date
newDate(text) == IF IsNumber(text) THEN text ELSE NaN

\* element ? parseFloat(element.textContent) : null
childFloat(element) == IF element = Undefined THEN Null ELSE parseFloat(element)

\* one trkpt element -> one point (lines 28-55)
gpxPoint(trkpt) ==
    [lat |-> parseFloat(trkpt.lat),
     lon |-> parseFloat(trkpt.lon),
     elevation |-> childFloat(trkpt.ele),
     time |-> IF trkpt.time = Undefined THEN Null ELSE newDate(trkpt.time),
     speed |-> childFloat(trkpt.speed),
     course |-> childFloat(trkpt.course),
     hdop |-> childFloat(trkpt.hdop),
     vdop |-> childFloat(trkpt.vdop),
     pdop |-> childFloat(trkpt.pdop),
     satellites |-> childFloat(trkpt.sat)]

\* a parser that omits the check of trkpts.length
gpxThrowsOnParseErrorOnly(doc) == ~doc.wellFormed

\* the checks that make parseGPX throw: parsererror, or no trkpt element
gpxThrows(doc) == ~doc.wellFormed \/ Len(doc.trkpts) = 0

\* a parser that sorts the points by time, as parseJPS does
gpxPointsSortedByTime(doc) ==
    sortByTime([i \in 1..Len(doc.trkpts) |-> gpxPoint(doc.trkpts[i])])

\* trkpts.forEach(... points.push(point))
gpxPoints(doc) == [i \in 1..Len(doc.trkpts) |-> gpxPoint(doc.trkpts[i])]

\* the promise of parseGPX: rejected, or resolved with the points
parseGPX(doc) ==
    IF gpxThrows(doc) THEN [outcome |-> "rejected", points |-> <<>>]
    ELSE [outcome |-> "resolved", points |-> gpxPoints(doc)]

(***************************************************************************)
(* src/js/cesiumController.js: parseFlightCellGPS                          *)
(***************************************************************************)
\* data.f: the value of a property, undefined when the object has none
Field(data, f) == IF f \in DOMAIN data THEN data[f] ELSE Undefined

\* JSON.parse(line), data.date.split or data.time.substring throws
fcLineThrows(l) ==
    ~l.json \/ Field(l, "date") = Undefined \/ Field(l, "time") = Undefined

\* new Date(`20${year}-${month}-${day}T${timeStr}Z`)
fcTimestamp(l) ==
    IF IsNumber(l.date) /\ IsNumber(l.time)
    THEN l.date * MsPerDay + l.time * 1000
    ELSE NaN

fcPoint(l) ==
    [lat |-> Field(l, "latitude"),
     lon |-> Field(l, "longitude"),
     elevation |-> Field(l, "altitude"),
     time |-> fcTimestamp(l),
     speed |-> Field(l, "speed"),
     heading |-> Field(l, "heading"),
     hdop |-> Field(l, "hdop"),
     pdop |-> Field(l, "pdop"),
     satellites |-> Field(l, "satellites"),
     fix |-> Field(l, "fix_type")]

\* a parser with the try around the loop: the first line that throws ends it
RECURSIVE fcPointsUntilError(_)
fcPointsUntilError(content) ==
    IF Len(content) = 0 THEN <<>>
    ELSE IF fcLineThrows(Head(content)) THEN <<>>
         ELSE <<fcPoint(Head(content))>> \o fcPointsUntilError(Tail(content))

\* for (const line of lines) { try { ... points.push(point) } catch { } }
RECURSIVE fcPoints(_)
fcPoints(content) ==
    IF Len(content) = 0 THEN <<>>
    ELSE IF fcLineThrows(Head(content)) THEN fcPoints(Tail(content))
         ELSE <<fcPoint(Head(content))>> \o fcPoints(Tail(content))

parseFlightCellGPS(content) == fcPoints(content)

(***************************************************************************)
(* The inputs of the parsers                                               *)
(***************************************************************************)
MaxLines == 5        \* NMEA lines per file
MaxTrkpts == 3       \* trkpt elements per GPX document
MaxFcLines == 3      \* lines per FlightCell GPS log

ProcessingDays == {1, 2}

GGA(type, time, lat, ns, lon, ew, sats, hdop, alt) ==
    [type |-> type, time |-> time, lat |-> lat, ns |-> ns, lon |-> lon, ew |-> ew,
     quality |-> 1, sats |-> sats, hdop |-> hdop, alt |-> alt]

GGASentences ==
    { GGA("$GPGGA", 20, 3352, "S", 15112, "W", 8, 9, 545),
      GGA("$GPGGA", 10, 4807, "N", 1131, "E", 0, 0, 0),
      GGA("$GPGGA", 30, 0, "N", 1131, "E", Blank, Blank, Blank),
      GGA("$GPGGA", Garbage, 4807, "N", 1131, "E", 8, 9, 545),
      GGA("$GPGGA", 30, Garbage, "N", 1131, "E", 8, 9, 545),
      GGA("$GPGGA", 20, Blank, "", 1131, "E", 8, 9, 545),
      GGA("$GNGGA", 10, 4807, "N", 1131, "E", 8, 9, 545) }

VTGSentences ==
    { [type |-> "$GNVTG", course |-> 90, kmh |-> 36],
      [type |-> "$GNVTG", course |-> Blank, kmh |-> 0],
      [type |-> "$GPVTG", course |-> 90, kmh |-> 36] }

GSASentences ==
    { [type |-> "$GNGSA", pdop |-> 30, hdop |-> 20, vdop |-> 10],
      [type |-> "$GNGSA", pdop |-> 0, hdop |-> Blank, vdop |-> 0] }

ZDASentences ==
    { [type |-> "$GNZDA", time |-> 10, day |-> 1],
      [type |-> "$GNZDA", time |-> Undefined, day |-> Undefined] }

Sentences ==
    GGASentences \cup VTGSentences \cup GSASentences \cup ZDASentences
        \cup {[type |-> "noise"]}

Trkpt(lat, lon, ele, time) ==
    [lat |-> lat, lon |-> lon, ele |-> ele, time |-> time, speed |-> Undefined,
     course |-> Undefined, hdop |-> Undefined, vdop |-> Undefined,
     pdop |-> Undefined, sat |-> Undefined]

Trkpts ==
    { Trkpt(3600, 300, 100, 2000),
      Trkpt(3601, 301, 0, 1500),
      Trkpt(Undefined, 300, Undefined, 3000),
      Trkpt(3602, 302, Undefined, Undefined) }

SeqsUpTo(S, n) == UNION {[1..m -> S] : m \in 0..n}

\* a document that is not well-formed holds a parsererror element and, in some
\* browsers, the trkpt elements read before the error
GPXDocs ==
    {[wellFormed |-> w, trkpts |-> t] : w \in BOOLEAN, t \in SeqsUpTo(Trkpts, MaxTrkpts)}

FcLine(latitude, longitude, date, time) ==
    [json |-> TRUE, latitude |-> latitude, longitude |-> longitude, altitude |-> 120,
     date |-> date, time |-> time, speed |-> 40, heading |-> 90, hdop |-> 1,
     pdop |-> 2, satellites |-> 9, fix_type |-> 3]

FcLines ==
    { [json |-> FALSE],
      FcLine(3600, 300, 1, 20),
      FcLine(3601, 301, 1, 10),
      FcLine(Undefined, 300, 1, 30),
      FcLine(3602, 302, Undefined, 30) }

FcContents == SeqsUpTo(FcLines, MaxFcLines)

NoDoc == [wellFormed |-> FALSE, trkpts |-> <<>>]

\* no function of utils.js has been called
NoCall ==
    /\ args = [fn |-> "none"]
    /\ returned = NoData

\* GPSTrackViewer.constructor (part_003 4-19)
ViewerStart ==
    /\ tracks = <<>>
    /\ layers = <<>>
    /\ currentTrackData = Null
    /\ flightCellData = [gps |-> Null, hasFlight |-> FALSE, flight |-> <<>>]
    /\ errors = 0
    /\ calls = <<>>
    /\ clock = 1
    /\ merges = <<>>
    /\ playbackIndex = 0
    /\ sliderMax = 0
    /\ playbackPanel = FALSE
    /\ isPlaying = FALSE
    /\ playbackInterval = Null
    /\ timers = {}
    /\ userActive = TRUE

(***************************************************************************)
(* The parsers as a state machine: the file is read, then parsed           *)
(***************************************************************************)
ParseInit ==
    /\ format \in {"jps", "gpx", "flightcell"}
    /\ today \in (IF format = "jps" THEN ProcessingDays ELSE {1})
    /\ nLines = 0
    /\ line = [type |-> "none"]
    /\ currentKey = Null
    /\ keys = <<>>
    /\ accs = [k \in {} |-> EmptyAcc]
    /\ gpxDoc \in (IF format = "gpx" THEN GPXDocs ELSE {NoDoc})
    /\ fcContent \in (IF format = "flightcell" THEN FcContents ELSE {<<>>})
    /\ outcome = "pending"
    /\ points = <<>>
    /\ ViewerStart
    /\ NoCall

\* the dataMap after the line, or the throw that ends the parse
ProcessLine(ks, as, cur, l, now) ==
    LET same == [keys |-> ks, accs |-> as, current |-> cur, threw |-> FALSE] IN
    IF ~StartsWithDollar(l) THEN same
    ELSE IF l.type = "$GPGGA" THEN
        LET data == parseGPGGA(l, now) IN
        IF data = NoData THEN same
        ELSE IF ToISOStringThrows(data) THEN [same EXCEPT !.threw = TRUE]
        ELSE [keys |-> onGGAKeys(ks, data), accs |-> onGGA(ks, as, data),
              current |-> data.time, threw |-> FALSE]
    ELSE IF l.type = "$GNVTG" THEN
        [same EXCEPT !.accs = onVTG(ks, as, parseGNVTG(l))]
    ELSE IF l.type = "$GNGSA" THEN
        [same EXCEPT !.accs = onGSA(ks, as, parseGNGSA(l))]
    ELSE IF l.type = "$GNZDA" THEN
        LET data == parseGNZDA(l) IN
        IF data = NoData THEN same ELSE [same EXCEPT !.accs = onZDA(ks, as, data)]
    ELSE same

\* one callback of lines.forEach (jpsParser.js 16-64)
ReadLine ==
    /\ format = "jps" /\ outcome = "pending" /\ nLines < MaxLines
    /\ \E l \in Sentences :
         LET r == ProcessLine(keys, accs, currentKey, l, today) IN
         /\ line' = l
         /\ nLines' = nLines + 1
         /\ keys' = r.keys
         /\ accs' = r.accs
         /\ currentKey' = r.current
         /\ outcome' = IF r.threw THEN "rejected" ELSE "pending"
    /\ UNCHANGED <<format, today, gpxDoc, fcContent, points>>
    /\ UNCHANGED <<viewVars, calcVars>>

\* if (points.length === 0) throw ...; else sort and resolve
jpsResult(ps) ==
    IF Len(ps) = 0 THEN [outcome |-> "rejected", points |-> <<>>]
    ELSE [outcome |-> "resolved", points |-> sortByTime(ps)]

\* the end of the input: convert, check, sort, resolve (jpsParser.js 66-98)
Finish ==
    /\ format = "jps" /\ outcome = "pending"
    /\ LET r == jpsResult(convertMap(keys, accs)) IN
         /\ outcome' = r.outcome
         /\ points' = r.points
    /\ UNCHANGED <<format, today, nLines, line, currentKey, keys, accs, gpxDoc, fcContent>>
    /\ UNCHANGED <<viewVars, calcVars>>

\* reader.onload of parseGPX
LoadGPX ==
    /\ format = "gpx" /\ outcome = "pending"
    /\ outcome' = parseGPX(gpxDoc).outcome
    /\ points' = parseGPX(gpxDoc).points
    /\ UNCHANGED <<format, today, nLines, line, currentKey, keys, accs, gpxDoc, fcContent>>
    /\ UNCHANGED <<viewVars, calcVars>>

\* parseFlightCellGPS(content): always returns a track
LoadFlightCell ==
    /\ format = "flightcell" /\ outcome = "pending"
    /\ outcome' = "resolved"
    /\ points' = parseFlightCellGPS(fcContent)
    /\ UNCHANGED <<format, today, nLines, line, currentKey, keys, accs, gpxDoc, fcContent>>
    /\ UNCHANGED <<viewVars, calcVars>>

ParseNext == ReadLine \/ Finish \/ LoadGPX \/ LoadFlightCell

SpecParse == ParseInit /\ [][ParseNext]_vars

\* parseJPS(file) as a whole: every line, then the conversion
RECURSIVE foldLines(_, _, _, _)
foldLines(ls, ks, as, now) ==
    IF Len(ls) = 0 THEN [keys |-> ks, accs |-> as, current |-> Null, threw |-> FALSE]
    ELSE LET r == ProcessLine(ks, as, Null, Head(ls), now) IN
         IF r.threw THEN r ELSE foldLines(Tail(ls), r.keys, r.accs, now)

parseJPS(ls, now) ==
    LET r == foldLines(ls, <<>>, [k \in {} |-> EmptyAcc], now) IN
    IF r.threw THEN [outcome |-> "rejected", points |-> <<>>]
    ELSE jpsResult(convertMap(r.keys, r.accs))

(***************************************************************************)
(* src/js/cesiumController.js: the flight data log and the merge           *)
(***************************************************************************)
\* JSON.parse(line) or data.gyro[0] / data.accel[0] throws
flightLineThrows(l) == ~l.json \/ "gyro" \notin DOMAIN l \/ "accel" \notin DOMAIN l

flightSample(l) ==
    [time |-> newDate(Field(l, "timestamp")),
     epochMs |-> Field(l, "epoch_milli_secs"),
     gyro |-> l.gyro,
     accel |-> l.accel,
     pitch |-> Field(l, "pitch"),
     roll |-> Field(l, "roll")]

RECURSIVE parseFlightCellFlightData(_)
parseFlightCellFlightData(content) ==
    IF Len(content) = 0 THEN <<>>
    ELSE IF flightLineThrows(Head(content))
         THEN parseFlightCellFlightData(Tail(content))
         ELSE <<flightSample(Head(content))>> \o parseFlightCellFlightData(Tail(content))

\* a key that keeps the milliseconds
secondKeyExact(time) == time

\* Math.floor(time.getTime() / 1000)
secondKey(time) == IF time = NaN THEN NaN ELSE time \div 1000

\* flightMap.get(key): the last sample set under the key, if any
flightMapHas(flightData, key) ==
    \E i \in 1..Len(flightData) : secondKey(flightData[i].time) = key

flightMapGet(flightData, key) ==
    LET last == CHOOSE i \in 1..Len(flightData) :
                    /\ secondKey(flightData[i].time) = key
                    /\ \A j \in (i + 1)..Len(flightData) :
                           secondKey(flightData[j].time) # key
    IN flightData[last]

\* { ...gps, more }
Spread(gps, more) ==
    [f \in DOMAIN gps \cup DOMAIN more |-> IF f \in DOMAIN more THEN more[f] ELSE gps[f]]

mergePoint(gps, flightData) ==
    LET key == secondKey(gps.time) IN
    IF flightMapHas(flightData, key)
    THEN LET flight == flightMapGet(flightData, key) IN
         Spread(gps, [pitch |-> flight.pitch, roll |-> flight.roll,
                      gyro |-> flight.gyro, accel |-> flight.accel])
    ELSE Spread(gps, [pitch |-> Null, roll |-> Null])

\* a merge that drops the GPS points without flight data
mergeMatchedOnly(gpsPoints, flightData) ==
    SelectSeq([i \in 1..Len(gpsPoints) |-> mergePoint(gpsPoints[i], flightData)],
              LAMBDA p : p.pitch # Null \/ p.roll # Null \/ "gyro" \in DOMAIN p)

mergeFlightCellData(gpsPoints, flightData) ==
    [i \in 1..Len(gpsPoints) |-> mergePoint(gpsPoints[i], flightData)]

\* detectFlightCellLogType(content)
detectFlightCellLogType(content) ==
    IF Len(content) = 0 \/ ~content[1].json THEN "unknown"
    ELSE IF Truthy(Field(content[1], "latitude")) /\ Truthy(Field(content[1], "longitude"))
         THEN "gps"
    ELSE IF "gyro" \in DOMAIN content[1] /\ "accel" \in DOMAIN content[1] THEN "flight"
    ELSE "unknown"

(***************************************************************************)
(* The files a user can hand to the viewer                                 *)
(***************************************************************************)
MaxLoads == 2        \* invocations of handleFiles and loadExampleData
MaxClock == 2        \* values of Date.now()

FlightLine(timestamp, pitch, roll) ==
    [json |-> TRUE, timestamp |-> timestamp, epoch_milli_secs |-> timestamp,
     gyro |-> <<1, 2, 3>>, accel |-> <<4, 5, 6>>, pitch |-> pitch, roll |-> roll]

gpxGood ==
    [name |-> "a.gpx", ext |-> "gpx",
     doc |-> [wellFormed |-> TRUE,
              trkpts |-> <<Trkpt(3600, 300, 100, 2000), Trkpt(3601, 301, 0, 1500)>>]]

gpxEmpty ==
    [name |-> "b.gpx", ext |-> "gpx", doc |-> [wellFormed |-> TRUE, trkpts |-> <<>>]]

jpsGood ==
    [name |-> "c.jps", ext |-> "jps",
     lines |-> << GGA("$GPGGA", 20, 3352, "S", 15112, "W", 8, 9, 545),
                  GGA("$GPGGA", 10, 4807, "N", 1131, "E", 0, 0, 0) >>]

jpsNoFix ==
    [name |-> "d.jps", ext |-> "jps",
     lines |-> << [type |-> "$GNVTG", course |-> 90, kmh |-> 36] >>]

txtFile == [name |-> "e.txt", ext |-> "txt"]

gpsLog ==
    [name |-> "gps.log", ext |-> "log", readable |-> TRUE,
     content |-> << FcLine(3600, 300, 1, 20), FcLine(3601, 301, 1, 10) >>]

gpsLogB ==
    [name |-> "gpsb.log", ext |-> "log", readable |-> TRUE,
     content |-> << FcLine(3605, 305, 1, 30) >>]

gpsLogNoPoints ==
    [name |-> "nopoints.log", ext |-> "log", readable |-> TRUE,
     content |-> << FcLine(3602, 302, Undefined, 30) >>]

flightLog ==
    [name |-> "flight.log", ext |-> "log", readable |-> TRUE,
     content |-> << FlightLine(MsPerDay + 10400, 5, 7), [json |-> FALSE],
                    FlightLine(MsPerDay + 50000, 6, 8) >>]

unknownLog ==
    [name |-> "x.log", ext |-> "log", readable |-> TRUE, content |-> << [json |-> FALSE] >>]

unreadableLog ==
    [name |-> "y.log", ext |-> "log", readable |-> FALSE, content |-> <<>>]

FileLists ==
    { <<>>, <<gpxGood>>, <<gpxEmpty>>, <<jpsGood>>, <<jpsNoFix>>, <<txtFile>>,
      <<gpsLog>>, <<gpsLogB>>, <<gpsLogNoPoints>>, <<flightLog>>, <<unknownLog>>,
      <<gpsLog, flightLog>>, <<flightLog, unreadableLog>> }

\* the document served as input/log0408d.gpx
ExampleDocs == {gpxGood.doc, gpxEmpty.doc, [wellFormed |-> FALSE, trkpts |-> <<>>]}

\* the promise of parseGPX(file) or parseJPS(file)
parseFile(file, now) ==
    IF file.ext = "gpx" THEN parseGPX(file.doc) ELSE parseJPS(file.lines, now)

\* what the parsers make of each file (the parsers are pure: a table of results)
parsedFile ==
    [f \in {gpxGood, gpxEmpty, jpsGood, jpsNoFix}, d \in ProcessingDays |-> parseFile(f, d)]

parsedLog ==
    [f \in {gpsLog, gpsLogB, gpsLogNoPoints, flightLog, unknownLog, unreadableLog} |->
        [logType |-> detectFlightCellLogType(f.content),
         gps |-> parseFlightCellGPS(f.content),
         flight |-> parseFlightCellFlightData(f.content)]]

parsedExample == [doc \in ExampleDocs |-> parseGPX(doc)]

(***************************************************************************)
(* src/unnamed/part_003: GPSTrackViewer                                    *)
(***************************************************************************)
\* the viewer's fields, as one value that the methods below transform
Viewer ==
    [tracks |-> tracks, layers |-> layers, current |-> currentTrackData,
     fcd |-> flightCellData, errors |-> errors, merges |-> merges,
     playbackIndex |-> playbackIndex, sliderMax |-> sliderMax,
     playbackPanel |-> playbackPanel]

\* a new track object; its identity is its index in tracks
newTrack(v, type, name, ps) ==
    [v EXCEPT !.tracks = Append(@, [type |-> type, name |-> name, points |-> ps,
                                    hasOrientation |-> FALSE])]

\* showError(message)
showError(v) == [v EXCEPT !.errors = @ + 1]

\* trackData && trackData.points && trackData.points.length > 0
hasPoints(v, trackData) ==
    IF trackData = Null THEN FALSE ELSE Len(v.tracks[trackData].points) > 0

\* setupPlayback(pointCount) (part_003 523-530)
setupPlayback(v, pointCount) ==
    [v EXCEPT !.sliderMax = pointCount - 1, !.playbackIndex = 0, !.playbackPanel = TRUE]

\* addLayer(trackData) (part_003 241-284)
addLayer(v, trackData, layerId) ==
    IF ~hasPoints(v, trackData)
    THEN showError(v)
    ELSE setupPlayback([v EXCEPT !.layers = Append(@, [id |-> layerId, data |-> trackData,
                                                        visible |-> TRUE]),
                                 !.current = trackData],
                       Len(v.tracks[trackData].points))

\* loadTrackData(trackData)
loadTrackData(v, trackData, layerId) == addLayer(v, trackData, layerId)

\* a load that shows the error and still makes its track the current one
finishLoadKeepsTrack(v, trackData, layerId) ==
    IF hasPoints(v, trackData)
    THEN loadTrackData(v, trackData, layerId)
    ELSE showError([v EXCEPT !.current = trackData])

\* handleFiles, lines 190-197: load the track, or throw and show the error
finishLoad(v, trackData, layerId) ==
    IF hasPoints(v, trackData)
    THEN loadTrackData(v, trackData, layerId)
    ELSE showError(v)

\* handleFiles, lines 153-160: one log file of the loop
readLog(v, file) ==
    IF parsedLog[file].logType = "gps"
    THEN [newTrack(v, "flightcell", file.name, parsedLog[file].gps)
              EXCEPT !.fcd.gps = Len(v.tracks) + 1]
    ELSE IF parsedLog[file].logType = "flight"
    THEN [v EXCEPT !.fcd.hasFlight = TRUE, !.fcd.flight = parsedLog[file].flight]
    ELSE v

\* a merge that does not ask whether there is flight data
useFlightCellDataUnchecked(v) ==
    IF v.fcd.gps = Null THEN v
    ELSE [v EXCEPT !.tracks[v.fcd.gps].points =
                       mergeFlightCellData(v.tracks[v.fcd.gps].points, v.fcd.flight),
                   !.tracks[v.fcd.gps].hasOrientation = TRUE,
                   !.merges = Append(@, [track |-> v.fcd.gps,
                                         gpsPoints |-> v.tracks[v.fcd.gps].points,
                                         flightData |-> v.fcd.flight])]

\* handleFiles, lines 164-175: use the GPS data, merged with the flight data
useFlightCellData(v) ==
    IF v.fcd.gps = Null THEN v
    ELSE IF ~v.fcd.hasFlight THEN v
    ELSE [v EXCEPT !.tracks[v.fcd.gps].points =
                       mergeFlightCellData(v.tracks[v.fcd.gps].points, v.fcd.flight),
                   !.tracks[v.fcd.gps].hasOrientation = TRUE,
                   !.merges = Append(@, [track |-> v.fcd.gps,
                                         gpsPoints |-> v.tracks[v.fcd.gps].points,
                                         flightData |-> v.fcd.flight])]

logFilesOf(files) == SelectSeq(files, LAMBDA f : f.ext = "log")

Call(kind, files, pc, idx, trackData, result) ==
    [kind |-> kind, files |-> files, pc |-> pc, idx |-> idx,
     trackData |-> trackData, result |-> result]

\* the viewer's fields after a method
Becomes(v) ==
    /\ tracks' = v.tracks
    /\ layers' = v.layers
    /\ currentTrackData' = v.current
    /\ flightCellData' = v.fcd
    /\ errors' = v.errors
    /\ merges' = v.merges
    /\ playbackIndex' = v.playbackIndex
    /\ sliderMax' = v.sliderMax
    /\ playbackPanel' = v.playbackPanel

\* how a load ended: it passed its track on, or it threw
resultOf(v, trackData) == IF hasPoints(v, trackData) THEN "loaded" ELSE "failed"

\* Date.now() at a call of addLayer
Now == {t \in {clock, clock + 1} : t <= MaxClock}

\* handleFiles(files) up to its first await (part_003 136-152, 176-187)
HandleFilesStart ==
    /\ Len(calls) < MaxLoads
    /\ \E files \in FileLists :
         IF Len(files) = 0
         THEN /\ calls' = Append(calls, Call("files", files, "done", 0, Null, "returned"))
              /\ Becomes(Viewer)
         ELSE IF Len(logFilesOf(files)) > 0
         THEN /\ calls' = Append(calls, Call("files", logFilesOf(files), "text", 1, Null, "running"))
              /\ Becomes(Viewer)
         ELSE IF files[1].ext \in {"gpx", "jps"}
         THEN /\ calls' = Append(calls, Call("files", files, "parse", 1, Null, "running"))
              /\ Becomes(Viewer)
         ELSE /\ calls' = Append(calls, Call("files", files, "done", 1, Null, "failed"))
              /\ Becomes(showError(Viewer))
    /\ UNCHANGED <<clock, playVars>>
    /\ UNCHANGED <<parseVars, calcVars>>

\* handleFiles resumed after await file.text() (part_003 152-201)
HandleFilesText ==
    /\ \E c \in 1..Len(calls), t \in Now :
         /\ calls[c].pc = "text"
         /\ \E file \in {calls[c].files[calls[c].idx]} :
            IF ~file.readable
            THEN /\ calls' = [calls EXCEPT ![c].pc = "done", ![c].result = "failed"]
                 /\ Becomes(showError(Viewer))
                 /\ clock' = clock
            ELSE IF calls[c].idx < Len(calls[c].files)
            THEN /\ calls' = [calls EXCEPT ![c].idx = @ + 1]
                 /\ \E v \in {readLog(Viewer, file)} : Becomes(v)
                 /\ clock' = clock
            ELSE \E u \in {readLog(Viewer, file)} :
                 \E v \in {useFlightCellData(u)} :
                 \E w \in {finishLoad(v, v.fcd.gps, t)} :
                    /\ calls' = [calls EXCEPT ![c].pc = "done",
                                              ![c].trackData = v.fcd.gps,
                                              ![c].result = resultOf(v, v.fcd.gps)]
                    /\ Becomes(w)
                    /\ clock' = IF hasPoints(v, v.fcd.gps) THEN t ELSE clock
    /\ UNCHANGED playVars
    /\ UNCHANGED <<parseVars, calcVars>>

\* handleFiles resumed after await parseGPX / parseJPS (part_003 181-201)
HandleFilesParsed ==
    /\ \E c \in 1..Len(calls), t \in Now :
         /\ calls[c].pc = "parse"
         /\ \E file \in {calls[c].files[1]} :
            \E r \in {parsedFile[file, today]} :
               IF r.outcome = "rejected"
               THEN /\ calls' = [calls EXCEPT ![c].pc = "done", ![c].result = "failed"]
                    /\ Becomes(showError(Viewer))
                    /\ clock' = clock
               ELSE \E v \in {newTrack(Viewer, file.ext, file.name, r.points)} :
                    \E w \in {finishLoad(v, Len(v.tracks), t)} :
                       /\ calls' = [calls EXCEPT ![c].pc = "done",
                                                 ![c].trackData = Len(v.tracks),
                                                 ![c].result = resultOf(v, Len(v.tracks))]
                       /\ Becomes(w)
                       /\ clock' = IF hasPoints(v, Len(v.tracks)) THEN t ELSE clock
    /\ UNCHANGED playVars
    /\ UNCHANGED <<parseVars, calcVars>>

\* loadExampleData() (part_003 206-228); nothing it reads changes while it waits
LoadExampleData ==
    /\ Len(calls) < MaxLoads
    /\ \E fetched \in BOOLEAN, doc \in ExampleDocs, t \in Now :
         \E r \in {parsedExample[doc]} :
         IF ~fetched \/ r.outcome = "rejected"
         THEN /\ calls' = Append(calls, Call("example", <<>>, "done", 0, Null, "failed"))
              /\ Becomes(showError(Viewer))
              /\ clock' = clock
         ELSE \E v \in {newTrack(Viewer, "gpx", "log0408d.gpx", r.points)} :
              \E w \in {loadTrackData(v, Len(v.tracks), t)} :
                 /\ calls' = Append(calls, Call("example", <<>>, "done", 0, Len(v.tracks),
                                                resultOf(v, Len(v.tracks))))
                 /\ Becomes(w)
                 /\ clock' = t
    /\ UNCHANGED playVars
    /\ UNCHANGED <<parseVars, calcVars>>

\* this.layers.findIndex(l => l.id === layerId), 0 when there is none
findIndex(ls, layerId) ==
    IF \E i \in 1..Len(ls) : ls[i].id = layerId
    THEN CHOOSE i \in 1..Len(ls) :
             ls[i].id = layerId /\ \A j \in 1..(i - 1) : ls[j].id # layerId
    ELSE 0

\* toggleLayer(layerId) (part_003 374-381), for a layer that is listed
ToggleLayer ==
    /\ \E i \in 1..Len(layers) :
         LET index == findIndex(layers, layers[i].id) IN
         layers' = [layers EXCEPT ![index].visible = ~@]
    /\ UNCHANGED <<tracks, currentTrackData, flightCellData, errors, calls, clock, merges>>
    /\ UNCHANGED <<playbackIndex, sliderMax, playbackPanel, playVars>>
    /\ UNCHANGED <<parseVars, calcVars>>

\* this.layers.splice(index, 1)
splice(ls, index) == SubSeq(ls, 1, index - 1) \o SubSeq(ls, index + 1, Len(ls))

\* removeLayer(layerId) (part_003 386-407), for a layer that is listed; with
\* no layer left showUploadArea hides the playback panel
RemoveLayer ==
    /\ userActive
    /\ \E i \in 1..Len(layers) :
         LET index == findIndex(layers, layers[i].id)
             rest == splice(layers, index)
         IN /\ layers' = rest
            /\ currentTrackData' =
                   IF Len(rest) > 0 THEN rest[Len(rest)].data ELSE currentTrackData
            /\ playbackPanel' = IF Len(rest) > 0 THEN playbackPanel ELSE FALSE
    /\ UNCHANGED <<tracks, flightCellData, errors, calls, clock, merges>>
    /\ UNCHANGED <<playbackIndex, sliderMax, playVars>>
    /\ UNCHANGED <<parseVars, calcVars>>

\* clearAllLayers() (part_003 412-424), when the user confirms; showUploadArea
\* hides the playback panel
ClearAllLayers ==
    /\ userActive
    /\ Len(layers) > 0
    /\ layers' = <<>>
    /\ playbackPanel' = FALSE
    /\ UNCHANGED <<tracks, currentTrackData, flightCellData, errors, calls, clock, merges>>
    /\ UNCHANGED <<playbackIndex, sliderMax, playVars>>
    /\ UNCHANGED <<parseVars, calcVars>>

Init ==
    /\ format = "none"
    /\ today = 1
    /\ nLines = 0
    /\ line = [type |-> "none"]
    /\ currentKey = Null
    /\ keys = <<>>
    /\ accs = [k \in {} |-> EmptyAcc]
    /\ gpxDoc = NoDoc
    /\ fcContent = <<>>
    /\ outcome = "pending"
    /\ points = <<>>
    /\ ViewerStart
    /\ NoCall

Next ==
    \/ HandleFilesStart
    \/ HandleFilesText
    \/ HandleFilesParsed
    \/ LoadExampleData
    \/ ToggleLayer
    \/ RemoveLayer
    \/ ClearAllLayers

Spec == Init /\ [][Next]_vars

(***************************************************************************)
(* src/unnamed/part_003: playback.  The play button and the slider are in   *)
(* the playback panel, which setupPlayback shows and showUploadArea hides;  *)
(* the user works them while the panel is displayed.                        *)
(***************************************************************************)
MaxPoints == 3       \* points of a track given to addLayer

\* the playback fields of the viewer and the registered interval timers
Player ==
    [isPlaying |-> isPlaying, playbackInterval |-> playbackInterval, timers |-> timers,
     playbackIndex |-> playbackIndex]

\* the id that setInterval returns: one that no registered timer has
setInterval(ts) == CHOOSE id \in 1..(Cardinality(ts) + 1) : id \notin ts

\* startPlayback() (part_003 546-560): the timer is registered
startPlayback(p) ==
    [p EXCEPT !.isPlaying = TRUE,
              !.playbackInterval = setInterval(p.timers),
              !.timers = @ \cup {setInterval(p.timers)}]

\* a pause that leaves the timer registered
pausePlaybackKeepsTimer(p) == [p EXCEPT !.isPlaying = FALSE]

\* pausePlayback() (part_003 565-573)
pausePlayback(p) ==
    IF p.playbackInterval # Null
    THEN [p EXCEPT !.isPlaying = FALSE,
                   !.timers = @ \ {p.playbackInterval},
                   !.playbackInterval = Null]
    ELSE [p EXCEPT !.isPlaying = FALSE]

\* togglePlayback() (part_003 535-541)
togglePlayback(p) == IF p.isPlaying THEN pausePlayback(p) ELSE startPlayback(p)

\* a callback that starts over at the end of the track instead of pausing
timerCallbackLoops(p, pointCount) ==
    IF p.playbackIndex >= pointCount - 1
    THEN [p EXCEPT !.playbackIndex = 0]
    ELSE [p EXCEPT !.playbackIndex = @ + 1]

\* the callback given to setInterval (part_003 550-559)
timerCallback(p, pointCount) ==
    IF p.playbackIndex >= pointCount - 1
    THEN [pausePlayback(p) EXCEPT !.playbackIndex = 0]
    ELSE [p EXCEPT !.playbackIndex = @ + 1]

\* the playback fields after a method
Plays(p) ==
    /\ isPlaying' = p.isPlaying
    /\ playbackInterval' = p.playbackInterval
    /\ timers' = p.timers
    /\ playbackIndex' = p.playbackIndex

\* a track of n points, one second apart
TrackOfLength(n) == [i \in 1..n |-> gpxPoint(Trkpt(3600 + i, 300, 100, 1000 * i))]

\* addLayer(trackData) (part_003 241-284) for a new track object
AddLayer ==
    /\ userActive
    /\ Len(tracks) < MaxLoads
    /\ \E n \in 0..MaxPoints, t \in Now :
         \E v \in {newTrack(Viewer, "gpx", "track.gpx", TrackOfLength(n))} :
            /\ Becomes(addLayer(v, Len(v.tracks), t))
            /\ clock' = IF hasPoints(v, Len(v.tracks)) THEN t ELSE clock
    /\ UNCHANGED <<calls, playVars>>
    /\ UNCHANGED <<parseVars, calcVars>>

\* a click on playPauseBtn (part_003 120-122)
TogglePlayback ==
    /\ userActive
    /\ playbackPanel
    /\ Plays(togglePlayback(Player))
    /\ UNCHANGED <<tracks, layers, currentTrackData, flightCellData, errors, calls, clock,
                   merges, sliderMax, playbackPanel, userActive>>
    /\ UNCHANGED <<parseVars, calcVars>>

\* an input event of playbackSlider (part_003 124-130): the value is between
\* 0 and the slider's max
SliderInput ==
    /\ userActive
    /\ playbackPanel
    /\ \E value \in 0..sliderMax :
         playbackIndex' = IF currentTrackData # Null THEN value ELSE playbackIndex
    /\ UNCHANGED <<tracks, layers, currentTrackData, flightCellData, errors, calls, clock,
                   merges, sliderMax, playbackPanel, playVars>>
    /\ UNCHANGED <<parseVars, calcVars>>

\* a registered interval timer fires (part_003 550-559); with no current track
\* the callback throws at once
Tick ==
    /\ \E id \in timers :
         IF currentTrackData = Null
         THEN Plays(Player)
         ELSE Plays(timerCallback(Player, Len(tracks[currentTrackData].points)))
    /\ UNCHANGED <<tracks, layers, currentTrackData, flightCellData, errors, calls, clock,
                   merges, sliderMax, playbackPanel, userActive>>
    /\ UNCHANGED <<parseVars, calcVars>>

\* the user gives no further input
UserStops ==
    /\ userActive
    /\ userActive' = FALSE
    /\ UNCHANGED <<tracks, layers, currentTrackData, flightCellData, errors, calls, clock,
                   merges, playbackIndex, sliderMax, playbackPanel, isPlaying,
                   playbackInterval, timers>>
    /\ UNCHANGED <<parseVars, calcVars>>

PlayNext ==
    \/ AddLayer
    \/ RemoveLayer
    \/ ClearAllLayers
    \/ TogglePlayback
    \/ SliderInput
    \/ Tick
    \/ UserStops

\* a registered interval timer keeps firing
SpecPlayback == Init /\ [][PlayNext]_vars /\ WF_vars(Tick)

(***************************************************************************)
(* src/js/utils.js: the statistics                                         *)
(*                                                                         *)
(* Numbers are integers: times in milliseconds, durations in seconds,      *)
(* distances and elevations in metres, DOP values in hundredths and         *)
(* protection levels in ten-thousandths of a metre.  A quotient is rounded *)
(* down to the unit.                                                       *)
(***************************************************************************)
Infinity == -906      \* Infinity, the quotient of a positive number and 0

\* the number that an arithmetic operator makes of its operand
ToNumber(v) ==
    IF v = Null THEN 0
    ELSE IF v \in {Undefined, NaN, Blank, Garbage} THEN NaN
    ELSE v

\* a + b
Plus(a, b) ==
    IF ToNumber(a) = NaN \/ ToNumber(b) = NaN THEN NaN
    ELSE IF a = Infinity \/ b = Infinity THEN Infinity
    ELSE ToNumber(a) + ToNumber(b)

\* a - b, of numbers or of Dates
Minus(a, b) ==
    IF ToNumber(a) = NaN \/ ToNumber(b) = NaN THEN NaN ELSE ToNumber(a) - ToNumber(b)

\* a / b
Divide(a, b) ==
    IF ToNumber(a) = NaN \/ ToNumber(b) = NaN THEN NaN
    ELSE IF ToNumber(b) = 0
         THEN (IF ToNumber(a) = 0 THEN NaN ELSE Infinity)
    ELSE ToNumber(a) \div ToNumber(b)

\* a > 0
Positive(a) == ToNumber(a) # NaN /\ ToNumber(a) > 0

protectionFactor == 533    \* 5.33
ura == 2                   \* 2.0

\* a protection level without the user range accuracy
calculateHPLNoURA(hdop) == IF ~Truthy(hdop) THEN Null ELSE hdop * protectionFactor

\* calculateHPL(hdop)
calculateHPL(hdop) == IF ~Truthy(hdop) THEN Null ELSE hdop * protectionFactor * ura

\* calculateVPL(vdop)
calculateVPL(vdop) == IF ~Truthy(vdop) THEN Null ELSE vdop * protectionFactor * ura

\* the length of one minute of arc of a meridian: 6371000 * PI / 180 / 60
MetresPerArcMinute == 1853

Abs(x) == IF x < 0 THEN -x ELSE x

\* calculateDistance(lat1, lon1, lat2, lon2) for two points of one meridian,
\* where a = sin^2((lat2 - lat1) / 2) and so c = |lat2 - lat1|
calculateDistance(lat1, lon1, lat2, lon2) ==
    IF NaN \in {ToNumber(lat1), ToNumber(lon1), ToNumber(lat2), ToNumber(lon2)} THEN NaN
    ELSE MetresPerArcMinute * Abs(ToNumber(lat2) - ToNumber(lat1))

\* calculateTotalDistance(points)
RECURSIVE calculateTotalDistanceTo(_, _)
calculateTotalDistanceTo(ps, n) ==
    IF n <= 1 THEN 0
    ELSE Plus(calculateTotalDistanceTo(ps, n - 1),
              calculateDistance(ps[n - 1].lat, ps[n - 1].lon, ps[n].lat, ps[n].lon))

calculateTotalDistance(ps) == calculateTotalDistanceTo(ps, Len(ps))

\* calculateElevationGain(points): the loop up to index n - 1
RECURSIVE calculateElevationGainTo(_, _)
calculateElevationGainTo(ps, n) ==
    IF n <= 1 THEN 0
    ELSE IF Positive(Minus(ps[n].elevation, ps[n - 1].elevation))
         THEN Plus(calculateElevationGainTo(ps, n - 1),
                   Minus(ps[n].elevation, ps[n - 1].elevation))
         ELSE calculateElevationGainTo(ps, n - 1)

calculateElevationGain(ps) == calculateElevationGainTo(ps, Len(ps))

\* points.map(p => p.f).filter(v => v !== null && v !== undefined)
present(ps, f) ==
    SelectSeq([i \in 1..Len(ps) |-> Field(ps[i], f)], LAMBDA v : v \notin {Null, Undefined})

\* values.reduce((a, b) => a + b, 0)
RECURSIVE reduceSum(_)
reduceSum(values) ==
    IF Len(values) = 0 THEN 0
    ELSE Plus(reduceSum(SubSeq(values, 1, Len(values) - 1)), values[Len(values)])

\* Math.min(...values), Math.max(...values) of at least one value
MathMin(values) ==
    IF \E i \in 1..Len(values) : ToNumber(values[i]) = NaN THEN NaN
    ELSE CHOOSE v \in {values[i] : i \in 1..Len(values)} :
             \A i \in 1..Len(values) : v <= values[i]

MathMax(values) ==
    IF \E i \in 1..Len(values) : ToNumber(values[i]) = NaN THEN NaN
    ELSE CHOOSE v \in {values[i] : i \in 1..Len(values)} :
             \A i \in 1..Len(values) : v >= values[i]

\* values.length > 0 ? f(values) : otherwise
minOf(values, otherwise) == IF Len(values) > 0 THEN MathMin(values) ELSE otherwise
maxOf(values, otherwise) == IF Len(values) > 0 THEN MathMax(values) ELSE otherwise
avgOf(values) ==
    IF Len(values) > 0 THEN Divide(reduceSum(values), Len(values)) ELSE Null

\* stat ? calculateHPL(stat) : null
levelOf(stat) == IF Truthy(stat) THEN calculateHPL(stat) ELSE Null
verticalLevelOf(stat) == IF Truthy(stat) THEN calculateVPL(stat) ELSE Null

\* the speeds that enter the statistics
speedsOf(ps) == SelectSeq(present(ps, "speed"), LAMBDA v : Positive(v))

\* a count of the points that have a time
countTimed(ps) == Len(present(ps, "time"))

\* points.length
countPoints(ps) == Len(ps)

\* (endTime - startTime) / 1000
durationOf(ps) == Divide(Minus(ps[Len(ps)].time, ps[1].time), 1000)

\* an average over all the points
avgSpeedOverAll(ps, distance, duration) ==
    IF Len(speedsOf(ps)) > 0 THEN Divide(reduceSum(speedsOf(ps)), Len(ps))
    ELSE Divide(distance, duration)

\* speeds.length > 0 ? mean of speeds : distance / duration
avgSpeedOf(ps, distance, duration) ==
    IF Len(speedsOf(ps)) > 0 THEN Divide(reduceSum(speedsOf(ps)), Len(speedsOf(ps)))
    ELSE Divide(distance, duration)

\* calculateStatistics(points), for points that are not missing
calculateStatistics(ps) ==
    IF Len(ps) = 0 THEN NoData
    ELSE [distance |-> calculateTotalDistance(ps),
          duration |-> durationOf(ps),
          avgSpeed |-> avgSpeedOf(ps, calculateTotalDistance(ps), durationOf(ps)),
          maxSpeed |-> maxOf(speedsOf(ps), 0),
          maxElevation |-> maxOf(present(ps, "elevation"), 0),
          minElevation |-> minOf(present(ps, "elevation"), 0),
          elevationGain |-> calculateElevationGain(ps),
          pointCount |-> countPoints(ps),
          minSatellites |-> minOf(present(ps, "satellites"), Null),
          maxSatellites |-> maxOf(present(ps, "satellites"), Null),
          avgSatellites |-> avgOf(present(ps, "satellites")),
          minHDOP |-> minOf(present(ps, "hdop"), Null),
          maxHDOP |-> maxOf(present(ps, "hdop"), Null),
          avgHDOP |-> avgOf(present(ps, "hdop")),
          minVDOP |-> minOf(present(ps, "vdop"), Null),
          maxVDOP |-> maxOf(present(ps, "vdop"), Null),
          avgVDOP |-> avgOf(present(ps, "vdop")),
          minPDOP |-> minOf(present(ps, "pdop"), Null),
          maxPDOP |-> maxOf(present(ps, "pdop"), Null),
          avgPDOP |-> avgOf(present(ps, "pdop")),
          minHPL |-> levelOf(minOf(present(ps, "hdop"), Null)),
          maxHPL |-> levelOf(maxOf(present(ps, "hdop"), Null)),
          avgHPL |-> levelOf(avgOf(present(ps, "hdop"))),
          minVPL |-> verticalLevelOf(minOf(present(ps, "vdop"), Null)),
          maxVPL |-> verticalLevelOf(maxOf(present(ps, "vdop"), Null)),
          avgVPL |-> verticalLevelOf(avgOf(present(ps, "vdop")))]

(***************************************************************************)
(* src/js/utils.js: the colours                                            *)
(*                                                                         *)
(* A normalized value and an interpolation factor are held in thousandths. *)
(* A colour string is a record: "#rrggbb" is kind "hex" with the number    *)
(* 0xrrggbb, the string "#aN" is kind "aN".                                *)
(***************************************************************************)
Hex(r, g, b) == [kind |-> "hex", rgb |-> r * 65536 + g * 256 + b]

blue == Hex(59, 130, 246)      \* '#3b82f6'
green == Hex(16, 185, 129)     \* '#10b981'
yellow == Hex(245, 158, 11)    \* '#f59e0b'
red == Hex(239, 68, 68)        \* '#ef4444'
brown == Hex(146, 64, 14)      \* '#92400e'

\* hexToRgb(hex)
hexToRgb(hex) ==
    [r |-> hex.rgb \div 65536, g |-> (hex.rgb \div 256) % 256, b |-> hex.rgb % 256]

\* v << n: the operand becomes a 32-bit integer first, NaN becomes 0
ShiftLeft(v, n) == IF ToNumber(v) = NaN THEN 0 ELSE v * (2 ^ n)

\* number.toString(16).slice(1) after "#", for channels from 0 to 255 or NaN
rgbToHex(r, g, b) ==
    IF Plus(Plus(Plus(2 ^ 24, ShiftLeft(r, 16)), ShiftLeft(g, 8)), b) = NaN
    THEN [kind |-> "aN", rgb |-> 0]
    ELSE [kind |-> "hex", rgb |-> ShiftLeft(r, 16) + ShiftLeft(g, 8) + b]

\* Math.round(c1 + factor * (c2 - c1))
channel(c1, c2, factor) ==
    IF factor = NaN THEN NaN ELSE (c1 * 1000 + factor * (c2 - c1) + 500) \div 1000

\* interpolateColor(color1, color2, factor)
interpolateColor(color1, color2, factor) ==
    rgbToHex(channel(hexToRgb(color1).r, hexToRgb(color2).r, factor),
             channel(hexToRgb(color1).g, hexToRgb(color2).g, factor),
             channel(hexToRgb(color1).b, hexToRgb(color2).b, factor))

\* a < b
Less(a, b) == a # NaN /\ a < b

\* a / b for b in thousandths
Over(a, b) == IF a = NaN THEN NaN ELSE (a * 1000) \div b

\* the quotient taken in whole units instead of thousandths
normalizeUnscaled(value, min, max) ==
    IF max = min
    THEN (IF value = min THEN NaN ELSE Infinity)
    ELSE (value - min) \div (max - min)

\* (value - min) / (max - min)
normalize(value, min, max) ==
    IF max = min
    THEN (IF value = min THEN NaN ELSE Infinity)
    ELSE ((value - min) * 1000) \div (max - min)

\* a - b for a in thousandths
Lower(a, b) == IF a = NaN THEN NaN ELSE a - b

\* getColorForValue(value, min, max, colorScheme) for min <= value <= max
getColorForValue(value, min, max, colorScheme) ==
    LET normalized == normalize(value, min, max)
        inverted == IF normalized = NaN THEN NaN ELSE 1000 - normalized
    IN IF colorScheme = "speed"
       THEN IF Less(normalized, 330)
            THEN interpolateColor(blue, green, Over(normalized, 330))
            ELSE IF Less(normalized, 660)
            THEN interpolateColor(green, yellow, Over(Lower(normalized, 330), 330))
            ELSE interpolateColor(yellow, red, Over(Lower(normalized, 660), 340))
       ELSE IF colorScheme = "elevation"
       THEN IF Less(normalized, 500)
            THEN interpolateColor(green, yellow, Over(normalized, 500))
            ELSE interpolateColor(yellow, brown, Over(Lower(normalized, 500), 500))
       ELSE IF colorScheme = "accuracy"
       THEN IF Less(inverted, 500)
            THEN interpolateColor(red, yellow, Over(inverted, 500))
            ELSE interpolateColor(yellow, green, Over(Lower(inverted, 500), 500))
       ELSE blue

(***************************************************************************)
(* The pure functions, each called once on arguments of its own            *)
(***************************************************************************)
MaxGpsPoints == 2    \* GPS points given to mergeFlightCellData
MaxSamples == 2      \* attitude samples given to mergeFlightCellData

\* a GPS point of parseFlightCellGPS with the given time value
GpsPointAt(time) == [fcPoint(FcLine(3600, 300, 1, 10)) EXCEPT !.time = time]

\* GPS points: two of one second, one of another second, one with an Invalid
\* Date, and one that an earlier merge has already been through
MergeGpsPoints ==
    { GpsPointAt(MsPerDay + 10000),
      GpsPointAt(MsPerDay + 10900),
      GpsPointAt(MsPerDay + 20000),
      GpsPointAt(NaN),
      mergePoint(GpsPointAt(MsPerDay + 50000), <<flightSample(FlightLine(MsPerDay + 50000, 6, 8))>>) }

\* attitude samples: two of one second, one of another second, one with an
\* Invalid Date
MergeSamples ==
    { flightSample(FlightLine(MsPerDay + 10400, 5, 7)),
      flightSample(FlightLine(MsPerDay + 10600, 15, 17)),
      flightSample(FlightLine(MsPerDay + 30000, 6, 8)),
      flightSample(FlightLine(Undefined, 9, 9)) }

MergeArgs ==
    {[fn |-> "mergeFlightCellData", called |-> FALSE, gpsPoints |-> g, flightData |-> f] :
        g \in SeqsUpTo(MergeGpsPoints, MaxGpsPoints), f \in SeqsUpTo(MergeSamples, MaxSamples)}

\* lines of a FlightCell GPS log and of a flight data log: lines that are not
\* JSON, lines of the format, and JSON lines that lack a field the parser reads
GpsLogArgs ==
    {[fn |-> "parseFlightCellGPS", called |-> FALSE, content |-> c] : c \in FcContents}

FlightLines ==
    { [json |-> FALSE],
      FlightLine(MsPerDay + 10400, 5, 7),
      FlightLine(MsPerDay + 50000, 6, 8),
      FlightLine(Undefined, 9, 9),
      [json |-> TRUE, timestamp |-> MsPerDay + 20000, pitch |-> 1, roll |-> 2] }

FlightLogArgs ==
    {[fn |-> "parseFlightCellFlightData", called |-> FALSE, content |-> c] :
        c \in SeqsUpTo(FlightLines, MaxFcLines)}

MaxStatPoints == 3   \* points given to calculateStatistics

StatPoint(lat, elevation, time, speed, hdop, vdop) ==
    [lat |-> lat, lon |-> 300, elevation |-> elevation, time |-> time, speed |-> speed,
     course |-> Null, satellites |-> IF IsNumber(hdop) THEN 9 ELSE Null,
     hdop |-> hdop, vdop |-> vdop, pdop |-> Null]

\* points on one meridian: three with every value, one with zeros, one with
\* null for what a GPX trackpoint lacks, one with an Invalid Date and NaN or
\* undefined for what could not be read
StatPoints ==
    { StatPoint(3600, 100, 10000, 20, 100, 150),
      StatPoint(3601, 90, 20000, 30, 200, 250),
      StatPoint(3602, 120, 40000, 50, 300, Null),
      StatPoint(3600, 0, 10000, 0, 0, 0),
      StatPoint(3603, Null, Null, Null, Null, Null),
      StatPoint(3604, Undefined, NaN, Undefined, NaN, Undefined) }

StatArgs ==
    {[fn |-> "calculateStatistics", called |-> FALSE, missing |-> FALSE, points |-> ps] :
        ps \in SeqsUpTo(StatPoints, MaxStatPoints)}
    \cup {[fn |-> "calculateStatistics", called |-> FALSE, missing |-> TRUE, points |-> <<>>]}

MaxValue == 3        \* the largest value given to getColorForValue

\* the calls of displayTrack: value, min and max are among the values of a
\* track; the loop over the points calls again with the same min, max and
\* scheme, and earlier holds the value and the colour of the call before
ColorArgs ==
    {a \in [fn : {"getColorForValue"}, called : {FALSE}, value : 0..MaxValue,
            min : 0..MaxValue, max : 0..MaxValue,
            colorScheme : {"speed", "elevation", "accuracy", "other"},
            again : {FALSE}, earlier : {NoData}] :
        a.min <= a.value /\ a.value <= a.max}

CalcArgs == MergeArgs \cup StatArgs \cup ColorArgs \cup GpsLogArgs \cup FlightLogArgs

CalcInit ==
    /\ format = "none"
    /\ today = 1
    /\ nLines = 0
    /\ line = [type |-> "none"]
    /\ currentKey = Null
    /\ keys = <<>>
    /\ accs = [k \in {} |-> EmptyAcc]
    /\ gpxDoc = NoDoc
    /\ fcContent = <<>>
    /\ outcome = "pending"
    /\ points = <<>>
    /\ ViewerStart
    /\ args \in CalcArgs
    /\ returned = NoData

\* mergeFlightCellData(gpsPoints, flightData)
Merge ==
    /\ args.fn = "mergeFlightCellData"
    /\ ~args.called
    /\ returned' = mergeFlightCellData(args.gpsPoints, args.flightData)
    /\ args' = [args EXCEPT !.called = TRUE]
    /\ UNCHANGED <<parseVars, viewVars>>

\* calculateStatistics(points); !points is the missing argument
CalculateStatistics ==
    /\ args.fn = "calculateStatistics"
    /\ ~args.called
    /\ returned' = IF args.missing THEN NoData ELSE calculateStatistics(args.points)
    /\ args' = [args EXCEPT !.called = TRUE]
    /\ UNCHANGED <<parseVars, viewVars>>

\* getColorForValue(value, min, max, colorScheme)
GetColorForValue ==
    /\ args.fn = "getColorForValue"
    /\ ~args.called
    /\ returned' = getColorForValue(args.value, args.min, args.max, args.colorScheme)
    /\ args' = [args EXCEPT !.called = TRUE]
    /\ UNCHANGED <<parseVars, viewVars>>

\* getColorForValue(value, min, max, colorMode) for the next point of the track
GetColorForValueAgain ==
    /\ args.fn = "getColorForValue"
    /\ args.called
    /\ ~args.again
    /\ \E value \in args.min..args.max :
        /\ returned' = getColorForValue(value, args.min, args.max, args.colorScheme)
        /\ args' = [args EXCEPT !.again = TRUE, !.value = value,
                                !.earlier = [value |-> args.value, colour |-> returned]]
    /\ UNCHANGED <<parseVars, viewVars>>

\* parseFlightCellGPS(fileContent).points
ParseFlightCellGPS ==
    /\ args.fn = "parseFlightCellGPS"
    /\ ~args.called
    /\ returned' = parseFlightCellGPS(args.content)
    /\ args' = [args EXCEPT !.called = TRUE]
    /\ UNCHANGED <<parseVars, viewVars>>

\* parseFlightCellFlightData(fileContent)
ParseFlightCellFlightData ==
    /\ args.fn = "parseFlightCellFlightData"
    /\ ~args.called
    /\ returned' = parseFlightCellFlightData(args.content)
    /\ args' = [args EXCEPT !.called = TRUE]
    /\ UNCHANGED <<parseVars, viewVars>>

CalcNext ==
    \/ ParseFlightCellGPS
    \/ ParseFlightCellFlightData
    \/ Merge
    \/ CalculateStatistics
    \/ GetColorForValue
    \/ GetColorForValueAgain

SpecCalc == CalcInit /\ [][CalcNext]_vars

(***************************************************************************)
(* Properties of the parsers                                               *)
(***************************************************************************)
jpsResolved == format = "jps" /\ outcome = "resolved"

\* the points that come from the accumulator of key k (a point keeps the time
\* of its accumulator, and the key is that time)
emittedFrom(k) == {i \in 1..Len(points) : points[i].time = k}

IsSortedByTime(ps) == \A i \in 1..(Len(ps) - 1) : ps[i].time <= ps[i + 1].time

\* C1: the points of a track returned by parseJPS are in non-decreasing order
\* of time, whatever the order of the sentences in the input.
C1_SortedByTime == jpsResolved => IsSortedByTime(points)

\* C1 witness: two fixes arrived in reverse chronological order and both are
\* in the returned track.
C1_Witness ==
    /\ jpsResolved
    /\ Len(points) >= 2
    /\ \E i, j \in 1..Len(keys) :
         /\ i < j /\ keys[i] > keys[j]
         /\ hasLatLon(accs[keys[i]]) /\ hasLatLon(accs[keys[j]])

\* C2: a VTG, GSA or ZDA sentence changes only the accumulator of the GGA
\* sentence that most recently preceded it (also when that GGA's key already
\* existed), and nothing when no GGA preceded it.
C2_OnlyLatestGGA ==
    [][(format = "jps" /\ nLines' = nLines + 1
            /\ line'.type \in {"$GNVTG", "$GNGSA", "$GNZDA"})
        => /\ DOMAIN accs' = DOMAIN accs
           /\ \A k \in DOMAIN accs : k # currentKey => accs'[k] = accs[k]]_vars

\* C3: a GSA sentence never changes an HDOP, VDOP or PDOP that already holds a
\* value, a value of 0 included.
C3_GSAFillsAbsentOnly ==
    [][(format = "jps" /\ nLines' = nLines + 1 /\ line'.type = "$GNGSA")
        => \A k \in DOMAIN accs : \A f \in {"hdop", "vdop", "pdop"} :
              accs[k][f] \notin {Undefined, Null} => accs'[k][f] = accs[k][f]]_vars

\* C4: parseJPS emits exactly one point for every accumulator that holds a
\* numeric lat and lon, whatever their values, and none for the others.
C4_OnePointPerFix ==
    jpsResolved =>
        \A k \in DOMAIN accs :
            IF IsNumber(accs[k].lat) /\ IsNumber(accs[k].lon)
            THEN Cardinality(emittedFrom(k)) = 1
            ELSE emittedFrom(k) = {}

\* C5: the time of a point whose fix got a ZDA sentence carries the calendar
\* date of that sentence, not the processing date.
C5_ZDADateUsed ==
    jpsResolved =>
        \A k \in DOMAIN accs : \A i \in emittedFrom(k) :
            IsNumber(accs[k].fullDate) =>
                points[i].time \div MsPerDay = accs[k].fullDate \div MsPerDay

OptionalFields == {"elevation", "speed", "course", "satellites", "hdop", "vdop", "pdop"}

\* C6: a recorded value of 0 is emitted as 0, and a field is emitted as null
\* only when no sentence supplied a value for it.
C6_ZeroStaysZero ==
    jpsResolved =>
        \A k \in DOMAIN accs : \A i \in emittedFrom(k) : \A f \in OptionalFields :
            /\ accs[k][f] = 0 => points[i][f] = 0
            /\ points[i][f] = Null => accs[k][f] \in {Undefined, Null}

\* C7: every point of every track returned by parseGPX, parseJPS or
\* parseFlightCellGPS has a present, finite numeric lat and lon.
C7_FiniteLatLon ==
    outcome = "resolved" =>
        \A i \in 1..Len(points) : IsNumber(points[i].lat) /\ IsNumber(points[i].lon)

\* C9: parseGPX and parseJPS never resolve with an empty point list; an input
\* that yields no point, or a GPX document that is not well-formed, rejects.
C9_NeverResolvesEmpty ==
    format \in {"jps", "gpx"} =>
        /\ outcome = "resolved" => Len(points) >= 1
        /\ (format = "gpx" /\ outcome # "pending"
                /\ (~gpxDoc.wellFormed \/ Len(gpxDoc.trkpts) = 0))
              => outcome = "rejected"
        /\ (format = "jps" /\ outcome # "pending"
                /\ \A k \in DOMAIN accs : ~hasLatLon(accs[k]))
              => outcome = "rejected"

\* C9 witness: a well-formed GPX document without trackpoints was rejected.
C9_Witness ==
    /\ format = "gpx" /\ outcome = "rejected"
    /\ gpxDoc.wellFormed /\ Len(gpxDoc.trkpts) = 0

(***************************************************************************)
(* Properties of the viewer                                                *)
(***************************************************************************)
\* the loads that have run to their end
ended == {c \in 1..Len(calls) : calls[c].pc = "done"}

\* C8: every layer of the viewer holds a track with at least one point, and a
\* load whose track has no point (or that has no track) adds no layer: it ends
\* with an error shown.
C8_LayersHavePoints ==
    /\ \A i \in 1..Len(layers) : Len(tracks[layers[i].data].points) >= 1
    /\ \A c \in ended :
          (calls[c].trackData = Null \/ Len(tracks[calls[c].trackData].points) = 0)
              => /\ calls[c].result \in {"failed", "returned"}
                 /\ \A i \in 1..Len(layers) : layers[i].data # calls[c].trackData
    /\ errors >= Cardinality({c \in ended : calls[c].result = "failed"})

\* C8 witness: a FlightCell GPS log without a usable line ended with an error
\* while the viewer shows the layer of an earlier load.
C8_Witness ==
    /\ Len(layers) >= 1
    /\ \E c \in ended :
         /\ calls[c].trackData # Null
         /\ Len(tracks[calls[c].trackData].points) = 0
         /\ calls[c].result = "failed"

\* the handleFiles calls that take a step, and have not loaded a track by it
failingStep(c) ==
    /\ c <= Len(calls')
    /\ calls'[c].kind = "files"
    /\ calls'[c].result \in {"running", "failed"}
    /\ (c > Len(calls) \/ calls'[c] # calls[c])

\* C10: no step of a handleFiles call that fails changes the layer list, the
\* current track or the points of a track on show, and the call shows one
\* error message, at the step where it fails.
C10_FailedLoadChangesNothing ==
    [][\A c \in 1..MaxLoads :
          failingStep(c) =>
              /\ layers' = layers
              /\ currentTrackData' = currentTrackData
              /\ \A i \in 1..Len(layers) : tracks'[layers[i].data] = tracks[layers[i].data]
              /\ currentTrackData # Null => tracks'[currentTrackData] = tracks[currentTrackData]
              /\ errors' = errors + (IF calls'[c].result = "failed" THEN 1 ELSE 0)]_vars

\* C10 witness: a handleFiles call has failed while a track is on show.
C10_Witness ==
    /\ Len(layers) >= 1
    /\ currentTrackData # Null
    /\ errors = 1
    /\ \E c \in ended : calls[c].kind = "files" /\ calls[c].result = "failed"

AttitudeFields == {"pitch", "roll", "gyro", "accel"}

\* a point that carries what the merge copied from an attitude sample
hasAttitude(p) == "gyro" \in DOMAIN p /\ "accel" \in DOMAIN p

\* C12: the hasOrientation flag of a track is true only if at least one of its
\* points carries pitch and roll copied from an attitude sample.
C12_OrientationOnlyIfMerged ==
    \A t \in 1..Len(tracks) :
        tracks[t].hasOrientation =>
            \E i \in 1..Len(tracks[t].points) : hasAttitude(tracks[t].points[i])

\* the log files whose parse a call has completed
parsedBy(c) ==
    IF calls[c].kind # "files" \/ calls[c].pc \notin {"text", "done"} THEN {}
    ELSE {calls[c].files[k] : k \in {k \in 1..Len(calls[c].files) :
              /\ calls[c].files[k].ext = "log"
              /\ k < calls[c].idx \/ (calls[c].pc = "done" /\ calls[c].files[k].readable)}}

parsedLogs == UNION {parsedBy(c) : c \in 1..Len(calls)}

\* the GPS part of a point
gpsPart(p) == [f \in DOMAIN p \ AttitudeFields |-> p[f]]

\* C13: under every interleaving of handleFiles invocations, each call of
\* mergeFlightCellData gets the whole result of a GPS parse that has completed
\* and the whole result of an attitude parse that has completed.
C13_MergeAfterBothParses ==
    \A k \in 1..Len(merges) :
        /\ \E f \in parsedLogs :
              /\ parsedLog[f].logType = "gps"
              /\ Len(merges[k].gpsPoints) = Len(parsedLog[f].gps)
              /\ \A i \in 1..Len(parsedLog[f].gps) :
                    gpsPart(merges[k].gpsPoints[i]) = gpsPart(parsedLog[f].gps[i])
        /\ \E f \in parsedLogs :
              /\ parsedLog[f].logType = "flight"
              /\ merges[k].flightData = parsedLog[f].flight

\* C13 witness: a merge has run on the GPS data of one invocation and the
\* attitude data of another, while the first invocation waits for its next
\* file.
C13_Witness ==
    /\ Len(merges) = 1
    /\ \E c \in 1..Len(calls) :
         /\ calls[c].pc = "text"
         /\ calls[c].idx = 2
         /\ parsedLog[calls[c].files[1]].logType = "gps"
         /\ flightCellData.gps = merges[1].track

\* C14: no two layers hold the same track object, and no step changes the
\* points or the hasOrientation flag of a track that a layer already holds.
C14_IndependentTracks ==
    [][/\ \A i, j \in 1..Len(layers') : i # j => layers'[i].data # layers'[j].data
       /\ \A i \in 1..Len(layers) :
              /\ tracks'[layers[i].data].points = tracks[layers[i].data].points
              /\ tracks'[layers[i].data].hasOrientation
                     = tracks[layers[i].data].hasOrientation]_vars

(***************************************************************************)
(* Properties of the pure functions                                        *)
(***************************************************************************)
merged == args.fn = "mergeFlightCellData" /\ args.called

\* the whole second of a time value; an Invalid Date has the key NaN
wholeSecond(time) == IF time = NaN THEN NaN ELSE time \div 1000

\* the attitude samples of the second of the i-th GPS point
samplesOf(i) ==
    {j \in 1..Len(args.flightData) :
        wholeSecond(args.flightData[j].time) = wholeSecond(args.gpsPoints[i].time)}

\* C11: mergeFlightCellData returns one point per GPS point, in the same order
\* and with the GPS fields unchanged; a point whose whole second is the second
\* of an attitude sample carries the pitch, roll, gyro and accel of a sample of
\* that second, and any other point carries pitch null and roll null.
C11_LeftJoin ==
    merged =>
        /\ Len(returned) = Len(args.gpsPoints)
        /\ \A i \in 1..Len(args.gpsPoints) :
              /\ \A f \in DOMAIN args.gpsPoints[i] \ AttitudeFields :
                    returned[i][f] = args.gpsPoints[i][f]
              /\ IF samplesOf(i) # {}
                 THEN \E j \in samplesOf(i) :
                        \A f \in AttitudeFields :
                            /\ f \in DOMAIN returned[i]
                            /\ returned[i][f] = args.flightData[j][f]
                 ELSE returned[i].pitch = Null /\ returned[i].roll = Null

\* C11 witness: a merge of two GPS points, one with an attitude sample of its
\* second (and not of its millisecond) and one without.
C11_Witness ==
    /\ merged
    /\ Len(args.gpsPoints) = 2
    /\ samplesOf(1) # {} /\ samplesOf(2) = {}
    /\ \A j \in samplesOf(1) : args.flightData[j].time # args.gpsPoints[1].time
    /\ returned[1].pitch # Null

stats == args.fn = "calculateStatistics" /\ args.called /\ returned # NoData

\* C15: calculateStatistics returns null if and only if the points are missing
\* or empty; otherwise pointCount is the number of points; the call leaves the
\* points as they were.
C15_NullIffEmpty ==
    [][(args.fn = "calculateStatistics" /\ ~args.called /\ args'.called)
        => /\ returned' = NoData <=> (args.missing \/ Len(args.points) = 0)
           /\ returned' # NoData => returned'.pointCount = Len(args.points)
           /\ args'.points = args.points]_vars

\* C15 witness: statistics of three points, one of them without a time.
C15_Witness ==
    /\ stats
    /\ returned.pointCount = 3
    /\ \E i \in 1..3 : args.points[i].time = Null

\* C16: duration is the time of the last point minus the time of the first, in
\* seconds, when both points have a time, and is not a number otherwise.
C16_Duration ==
    stats =>
        LET first == args.points[1].time
            last == args.points[Len(args.points)].time
        IN IF IsNumber(first) /\ IsNumber(last)
           THEN returned.duration * 1000 = last - first
           ELSE returned.duration \in {Null, Undefined, NaN}

\* the indices of the points with a positive speed
positiveSpeeds == {i \in 1..Len(args.points) :
                      IsNumber(args.points[i].speed) /\ args.points[i].speed > 0}

RECURSIVE sumOfSpeeds(_)
sumOfSpeeds(I) ==
    IF I = {} THEN 0
    ELSE LET i == CHOOSE i \in I : TRUE IN args.points[i].speed + sumOfSpeeds(I \ {i})

\* C17: avgSpeed is the mean of the positive speeds when there is one (to the
\* unit below), and distance / duration otherwise.
C17_AvgSpeed ==
    stats =>
        IF positiveSpeeds # {}
        THEN /\ returned.avgSpeed * Cardinality(positiveSpeeds) <= sumOfSpeeds(positiveSpeeds)
             /\ sumOfSpeeds(positiveSpeeds)
                    < (returned.avgSpeed + 1) * Cardinality(positiveSpeeds)
        ELSE returned.avgSpeed = Divide(returned.distance, returned.duration)

\* C17 witness: three points, two positive speeds and an absent or zero one.
C17_Witness ==
    /\ stats
    /\ Len(args.points) = 3
    /\ Cardinality(positiveSpeeds) = 2
    /\ returned.avgSpeed = 25

\* the rise from point i - 1 to point i, nothing when an elevation is missing
riseTo(i) ==
    IF IsNumber(args.points[i].elevation) /\ IsNumber(args.points[i - 1].elevation)
           /\ args.points[i].elevation > args.points[i - 1].elevation
    THEN args.points[i].elevation - args.points[i - 1].elevation
    ELSE 0

RECURSIVE sumOfRises(_)
sumOfRises(n) == IF n <= 1 THEN 0 ELSE sumOfRises(n - 1) + riseTo(n)

\* C18: the elevation gain is the sum of the positive differences of
\* consecutive elevations; a pair with a missing elevation adds nothing.
C18_ElevationGain ==
    stats => returned.elevationGain = sumOfRises(Len(args.points))

\* the protection level that the claim gives to a DOP statistic: 10.66 for
\* each 1.0 of DOP, nothing for a statistic that is no value or zero
claimedLevel(stat) == IF stat \in {Null, NaN, 0} THEN Null ELSE stat * 1066

\* C19: each of min/avg/max HPL (VPL) is 5.33 * 2.0 times the min/avg/max HDOP
\* (VDOP), and is absent exactly when that statistic is absent or zero.
C19_ProtectionLevels ==
    stats =>
        /\ returned.minHPL = claimedLevel(returned.minHDOP)
        /\ returned.avgHPL = claimedLevel(returned.avgHDOP)
        /\ returned.maxHPL = claimedLevel(returned.maxHDOP)
        /\ returned.minVPL = claimedLevel(returned.minVDOP)
        /\ returned.avgVPL = claimedLevel(returned.avgVDOP)
        /\ returned.maxVPL = claimedLevel(returned.maxVDOP)

\* C19 witness: HDOP 1.0 / 2.0 / 3.0 gives HPL 10.66 / 21.32 / 31.98, and there
\* is no VPL for a VDOP of zero.
C19_Witness ==
    /\ stats
    /\ returned.minHDOP = 100 /\ returned.avgHDOP = 200 /\ returned.maxHDOP = 300
    /\ returned.minHPL = 106600 /\ returned.avgHPL = 213200 /\ returned.maxHPL = 319800

\* the colour that a scheme gives to the normalized value 0
colourAtZero(colorScheme) ==
    IF colorScheme = "speed" THEN blue
    ELSE IF colorScheme = "elevation" THEN green
    ELSE IF colorScheme = "accuracy" THEN green
    ELSE blue

\* C20: getColorForValue with min = max returns, for every scheme, the
\* well-formed colour that the scheme gives to the normalized value 0.
C20_EqualRange ==
    (args.fn = "getColorForValue" /\ args.called /\ args.min = args.max)
        => returned = colourAtZero(args.colorScheme)

\* two calls with the same min, max and scheme, on the values a and b
calledOn(a, b) ==
    /\ args.fn = "getColorForValue"
    /\ args.again
    /\ args.earlier.value = a
    /\ args.value = b

KnownSchemes == {"speed", "elevation", "accuracy"}

\* the two parts of C21 for the schemes in S
endsDifferAndCallsAgree(S) ==
    /\ (args.fn = "getColorForValue" /\ args.again /\ args.colorScheme \in S
            /\ args.min # args.max
            /\ (calledOn(args.min, args.max) \/ calledOn(args.max, args.min)))
        => returned # args.earlier.colour
    /\ (args.fn = "getColorForValue" /\ args.again /\ args.earlier.value = args.value)
        => returned = args.earlier.colour

allTimed(ps) == \A j \in 1..Len(ps) : IsNumber(ps[j].time)

\* C22: every track that was added as a layer, whatever its format, has its
\* points in ascending order of time when every one of its points has a time.
C22_LayersSortedByTime ==
    \A i \in 1..Len(layers) :
        allTimed(tracks[layers[i].data].points)
            => IsSortedByTime(tracks[layers[i].data].points)

\* the point holds what the trkpt element states
fromTrkpt(p, trkpt) ==
    /\ IsNumber(trkpt.lat) => p.lat = trkpt.lat
    /\ IsNumber(trkpt.lon) => p.lon = trkpt.lon
    /\ IsNumber(trkpt.ele) => p.elevation = trkpt.ele
    /\ IsNumber(trkpt.time) => p.time = trkpt.time

\* C23: for a well-formed GPX document with at least one trkpt element,
\* parseGPX resolves with as many points as there are trkpt elements, the i-th
\* point coming from the i-th element in document order.
C23_OnePointPerTrkpt ==
    (format = "gpx" /\ outcome # "pending" /\ gpxDoc.wellFormed /\ Len(gpxDoc.trkpts) >= 1)
        => /\ outcome = "resolved"
           /\ Len(points) = Len(gpxDoc.trkpts)
           /\ \A i \in 1..Len(gpxDoc.trkpts) : fromTrkpt(points[i], gpxDoc.trkpts[i])

\* C23 witness: three elements, the second earlier than the first and the
\* third without coordinates of its own, give three points in that order.
C23_Witness ==
    /\ format = "gpx" /\ outcome = "resolved" /\ gpxDoc.wellFormed
    /\ Len(gpxDoc.trkpts) = 3 /\ Len(points) = 3
    /\ gpxDoc.trkpts[1].time = 2000 /\ points[1].time = 2000
    /\ gpxDoc.trkpts[2].time = 1500 /\ points[2].time = 1500
    /\ gpxDoc.trkpts[3].lat = Undefined /\ points[3].time = 3000

\* a line of the GPS log format: JSON with a date and a time
gpsLineOfFormat(l) ==
    /\ l.json
    /\ "date" \in DOMAIN l /\ l.date # Undefined
    /\ "time" \in DOMAIN l /\ l.time # Undefined

\* a line of the flight data format: JSON with the gyro and accel arrays
flightLineOfFormat(l) == l.json /\ "gyro" \in DOMAIN l /\ "accel" \in DOMAIN l

\* the entry states the position and the attitude of the line
fromLine(entry, l) ==
    /\ \A f \in {"lat", "lon"} \cap DOMAIN entry :
           entry[f] = Field(l, IF f = "lat" THEN "latitude" ELSE "longitude")
    /\ \A f \in {"pitch", "roll"} \cap DOMAIN entry : entry[f] = Field(l, f)
    /\ "epochMs" \in DOMAIN entry => entry.epochMs = Field(l, "epoch_milli_secs")

\* one entry per line of the format, in the order of the lines
entriesOf(lines) ==
    /\ Len(returned) = Len(lines)
    /\ \A i \in 1..Len(lines) : i <= Len(returned) => fromLine(returned[i], lines[i])

\* C24: parseFlightCellGPS and parseFlightCellFlightData return, whatever the
\* lines, one entry per well-formed line in input order; a line that is not
\* valid JSON is skipped and changes nothing for the lines around it.
C24_OneEntryPerGoodLine ==
    /\ (args.fn = "parseFlightCellGPS" /\ args.called)
        => entriesOf(SelectSeq(args.content, gpsLineOfFormat))
    /\ (args.fn = "parseFlightCellFlightData" /\ args.called)
        => entriesOf(SelectSeq(args.content, flightLineOfFormat))

\* C24 witness: a line that is not JSON between two lines of a GPS log; the
\* two lines give the two points.
C24_Witness ==
    /\ args.fn = "parseFlightCellGPS" /\ args.called
    /\ Len(args.content) = 3
    /\ args.content[1].json /\ ~args.content[2].json /\ args.content[3].json
    /\ Len(returned) = 2
    /\ returned[1].lat = 3601 /\ returned[2].lat = 3600

\* the sentence with the talker prefix that the parser matches
sameSentence(l) ==
    IF l.type \in {"$GPGGA", "$GNGGA"} THEN [l EXCEPT !.type = "$GPGGA"]
    ELSE IF l.type \in {"$GPVTG", "$GNVTG"} THEN [l EXCEPT !.type = "$GNVTG"]
    ELSE l

\* C25: a line is dispatched by its sentence type whatever its talker prefix:
\* a $GNGGA line opens or updates a fix as a $GPGGA line does, a $GPVTG line
\* is applied to the current fix as a $GNVTG line is, and a line that does not
\* start with '$' changes no accumulator.
C25_AnyTalkerPrefix ==
    [][(format = "jps" /\ outcome = "pending" /\ nLines' = nLines + 1)
        => /\ keys' = ProcessLine(keys, accs, currentKey, sameSentence(line'), today).keys
           /\ accs' = ProcessLine(keys, accs, currentKey, sameSentence(line'), today).accs
           /\ line'.type = "noise" => (keys' = keys /\ accs' = accs)]_vars

(***************************************************************************)
(* Properties of the playback                                              *)
(***************************************************************************)
\* C26: whenever a track is loaded, playbackIndex is the index of one of the
\* points of the current track.
C26_IndexInTrack ==
    currentTrackData # Null
        => /\ 0 <= playbackIndex
           /\ playbackIndex < Len(tracks[currentTrackData].points)

\* C27: isPlaying is true exactly when playbackInterval holds a timer, and at
\* most one playback timer is registered.
C27_PlayingIffTimer ==
    /\ isPlaying <=> playbackInterval # Null
    /\ Cardinality(timers) <= 1
    /\ playbackInterval # Null => timers = {playbackInterval}

\* C27 witness: a second track was loaded while the first was being played.
C27_Witness ==
    /\ isPlaying
    /\ Cardinality(timers) = 1
    /\ Len(layers) = 2
    /\ playbackIndex = 1

stoppedAtStart == ~isPlaying /\ playbackInterval = Null /\ timers = {} /\ playbackIndex = 0

\* C28: once the playback runs and the user gives no further input, every
\* step advances playbackIndex by one or stops the playback, and the playback
\* does stop: isPlaying is false, the timer is cleared and playbackIndex is 0.
C28_PlaybackEnds ==
    /\ [][(isPlaying /\ ~userActive)
            => \/ isPlaying' /\ playbackIndex' = playbackIndex + 1
               \/ stoppedAtStart']_vars
    /\ (isPlaying /\ ~userActive) ~> stoppedAtStart

\* C28 witness: the user has left and the playback is one tick before the
\* last point of a track of three points.
C28_Witness ==
    /\ isPlaying /\ ~userActive
    /\ currentTrackData # Null
    /\ Len(tracks[currentTrackData].points) = 3
    /\ playbackIndex = 1

\* C29: currentTrackData is null or the track of a layer that is in the layer
\* list, so that after the last layer is removed or all layers are cleared
\* nothing works on a removed track.
C29_CurrentTrackIsListed ==
    \/ currentTrackData = Null
    \/ \E i \in 1..Len(layers) : layers[i].data = currentTrackData

\* C30: for a non-empty sequence of points the avgSpeed that
\* calculateStatistics returns is a finite number that is not negative.
C30_AvgSpeedFinite ==
    (args.fn = "calculateStatistics" /\ args.called /\ Len(args.points) > 0)
        => /\ returned.avgSpeed \notin {NaN, Infinity, Null, Undefined}
           /\ returned.avgSpeed >= 0

====
